---------------------------- MODULE Spec2Model ----------------------------
(***************************************************************************)
(* A model of the TrueSkill rating engine of                               *)
(* trueskill_project/trueskill_simple/core.py: the Gaussian helpers, the   *)
(* draw-margin calibration, the Player objects and TrueSkillEnv with       *)
(* make_player, rate and _rate_two_teams.                                  *)
(*                                                                         *)
(* Numbers.  The source computes in binary floating point; the model       *)
(* computes in fixed point, every operation rounding to the nearest        *)
(* representable value (ties away from zero, so that rounding commutes     *)
(* with negation as it does for floats).                                   *)
(*   - mu, sigma, beta, tau, eps, c are whole multiples of the             *)
(*     environment's unit; a variance is a whole multiple of unit^2.       *)
(*     Two units are used: "1/12" (the default environment is then         *)
(*     exact: mu0 = 25 = 300 units, sigma0 = 25/3 = 100, beta = 25/6 = 50, *)
(*     tau = 25/300 = 1) and "1e-5" (a micro-scale environment in which    *)
(*     the variance floor 1e-9 is exactly 10 unit^2).                      *)
(*   - t, eps/c and the bisection variable z are in hundredths (TScale);   *)
(*   - values of the normal density and distribution function are in       *)
(*     millionths (PScale); v and w are in thousandths (VScale);           *)
(*   - draw_probability is in percent, trust is a whole number.            *)
(* math.exp and math.erf are library functions: _phi and _Phi are          *)
(* tabulated on the grid of hundredths, the tables holding the source's    *)
(* formulas rounded to millionths.                                         *)
(***************************************************************************)
EXTENDS Integers, Sequences, FiniteSets, TLC

(***************************************************************************)
(* Bounds of the model.                                                    *)
(***************************************************************************)
MaxPlayers == 3
MaxCalls == 2
MaxTeams == 3
MaxTeamSize == 2
MaxRank == 2

(***************************************************************************)
(* Fixed-point scales.                                                     *)
(***************************************************************************)
TScale == 10 * 10
PScale == 1000 * 1000
VScale == 10 * 100
\* the range of the tables: |x| <= 5.00
TableHalf == 5 * TScale

(***************************************************************************)
(* Arithmetic helpers.                                                     *)
(***************************************************************************)
Abs(x) == IF x < 0 THEN -x ELSE x

Max(a, b) == IF a >= b THEN a ELSE b

\* a / b rounded to the nearest integer, ties away from zero (b > 0)
RDiv(a, b) ==
  IF a >= 0 THEN (2 * a + b) \div (2 * b)
            ELSE -((2 * (-a) + b) \div (2 * b))

RECURSIVE SqrtSearch(_, _, _)
\* the largest r in lo..hi with r * r <= n
SqrtSearch(n, lo, hi) ==
  IF lo >= hi THEN lo
  ELSE LET mid == (lo + hi + 1) \div 2
       IN  IF mid * mid <= n THEN SqrtSearch(n, mid, hi)
                             ELSE SqrtSearch(n, lo, mid - 1)

\* math.sqrt, rounded to the nearest integer (n >= 0, n < 2^30)
Sqrt(n) ==
  LET r == SqrtSearch(n, 0, 32767)
  IN  IF n > r * r + r THEN r + 1 ELSE r

RECURSIVE SumSeq(_)
SumSeq(s) == IF s = << >> THEN 0 ELSE Head(s) + SumSeq(Tail(s))

(***************************************************************************)
(* Normal pdf/cdf helpers (core.py, lines 10-50).                          *)
(***************************************************************************)
\* math.sqrt(2.0), in thousandths
_SQRT2 == 1414

\* _Phi on the grid -5.00, -4.99, ..., 5.00, in millionths
CdfTable ==
  << 0, 0, 0, 0, 0, 0, 0, 0, 0, 0, 0, 1,
     1, 1, 1, 1, 1, 1, 1, 1, 1, 1, 1, 1,
     1, 1, 1, 1, 1, 1, 1, 1, 1, 2, 2, 2,
     2, 2, 2, 2, 2, 2, 2, 2, 3, 3, 3, 3,
     3, 3, 3, 4, 4, 4, 4, 4, 4, 5, 5, 5,
     5, 6, 6, 6, 7, 7, 7, 7, 8, 8, 9, 9,
     9, 10, 10, 11, 11, 12, 12, 13, 13, 14, 15, 15,
     16, 17, 17, 18, 19, 20, 21, 22, 23, 24, 25, 26,
     27, 28, 29, 30, 32, 33, 34, 36, 37, 39, 41, 42,
     44, 46, 48, 50, 52, 54, 57, 59, 62, 64, 67, 69,
     72, 75, 78, 82, 85, 88, 92, 96, 100, 104, 108, 112,
     117, 121, 126, 131, 136, 142, 147, 153, 159, 165, 172, 178,
     185, 193, 200, 208, 216, 224, 233, 242, 251, 260, 270, 280,
     291, 302, 313, 325, 337, 349, 362, 376, 390, 404, 419, 434,
     450, 466, 483, 501, 519, 538, 557, 577, 598, 619, 641, 664,
     687, 711, 736, 762, 789, 816, 845, 874, 904, 935, 968, 1001,
     1035, 1070, 1107, 1144, 1183, 1223, 1264, 1306, 1350, 1395, 1441, 1489,
     1538, 1589, 1641, 1695, 1750, 1807, 1866, 1926, 1988, 2052, 2118, 2186,
     2256, 2327, 2401, 2477, 2555, 2635, 2718, 2803, 2890, 2980, 3072, 3167,
     3264, 3364, 3467, 3573, 3681, 3793, 3907, 4025, 4145, 4269, 4396, 4527,
     4661, 4799, 4940, 5085, 5234, 5386, 5543, 5703, 5868, 6037, 6210, 6387,
     6569, 6756, 6947, 7143, 7344, 7549, 7760, 7976, 8198, 8424, 8656, 8894,
     9137, 9387, 9642, 9903, 10170, 10444, 10724, 11011, 11304, 11604, 11911, 12224,
     12545, 12874, 13209, 13553, 13903, 14262, 14629, 15003, 15386, 15778, 16177, 16586,
     17003, 17429, 17864, 18309, 18763, 19226, 19699, 20182, 20675, 21178, 21692, 22216,
     22750, 23295, 23852, 24419, 24998, 25588, 26190, 26803, 27429, 28067, 28717, 29379,
     30054, 30742, 31443, 32157, 32884, 33625, 34380, 35148, 35930, 36727, 37538, 38364,
     39204, 40059, 40930, 41815, 42716, 43633, 44565, 45514, 46479, 47460, 48457, 49471,
     50503, 51551, 52616, 53699, 54799, 55917, 57053, 58208, 59380, 60571, 61780, 63008,
     64255, 65522, 66807, 68112, 69437, 70781, 72145, 73529, 74934, 76359, 77804, 79270,
     80757, 82264, 83793, 85343, 86915, 88508, 90123, 91759, 93418, 95098, 96800, 98525,
     100273, 102042, 103835, 105650, 107488, 109349, 111232, 113139, 115070, 117023, 119000, 121000,
     123024, 125072, 127143, 129238, 131357, 133500, 135666, 137857, 140071, 142310, 144572, 146859,
     149170, 151505, 153864, 156248, 158655, 161087, 163543, 166023, 168528, 171056, 173609, 176186,
     178786, 181411, 184060, 186733, 189430, 192150, 194895, 197663, 200454, 203269, 206108, 208970,
     211855, 214764, 217695, 220650, 223627, 226627, 229650, 232695, 235762, 238852, 241964, 245097,
     248252, 251429, 254627, 257846, 261086, 264347, 267629, 270931, 274253, 277595, 280957, 284339,
     287740, 291160, 294599, 298056, 301532, 305026, 308538, 312067, 315614, 319178, 322758, 326355,
     329969, 333598, 337243, 340903, 344578, 348268, 351973, 355691, 359424, 363169, 366928, 370700,
     374484, 378280, 382089, 385908, 389739, 393580, 397432, 401294, 405165, 409046, 412936, 416834,
     420740, 424655, 428576, 432505, 436441, 440382, 444330, 448283, 452242, 456205, 460172, 464144,
     468119, 472097, 476078, 480061, 484047, 488034, 492022, 496011, 500000, 503989, 507978, 511966,
     515953, 519939, 523922, 527903, 531881, 535856, 539828, 543795, 547758, 551717, 555670, 559618,
     563559, 567495, 571424, 575345, 579260, 583166, 587064, 590954, 594835, 598706, 602568, 606420,
     610261, 614092, 617911, 621720, 625516, 629300, 633072, 636831, 640576, 644309, 648027, 651732,
     655422, 659097, 662757, 666402, 670031, 673645, 677242, 680822, 684386, 687933, 691462, 694974,
     698468, 701944, 705401, 708840, 712260, 715661, 719043, 722405, 725747, 729069, 732371, 735653,
     738914, 742154, 745373, 748571, 751748, 754903, 758036, 761148, 764238, 767305, 770350, 773373,
     776373, 779350, 782305, 785236, 788145, 791030, 793892, 796731, 799546, 802337, 805105, 807850,
     810570, 813267, 815940, 818589, 821214, 823814, 826391, 828944, 831472, 833977, 836457, 838913,
     841345, 843752, 846136, 848495, 850830, 853141, 855428, 857690, 859929, 862143, 864334, 866500,
     868643, 870762, 872857, 874928, 876976, 879000, 881000, 882977, 884930, 886861, 888768, 890651,
     892512, 894350, 896165, 897958, 899727, 901475, 903200, 904902, 906582, 908241, 909877, 911492,
     913085, 914657, 916207, 917736, 919243, 920730, 922196, 923641, 925066, 926471, 927855, 929219,
     930563, 931888, 933193, 934478, 935745, 936992, 938220, 939429, 940620, 941792, 942947, 944083,
     945201, 946301, 947384, 948449, 949497, 950529, 951543, 952540, 953521, 954486, 955435, 956367,
     957284, 958185, 959070, 959941, 960796, 961636, 962462, 963273, 964070, 964852, 965620, 966375,
     967116, 967843, 968557, 969258, 969946, 970621, 971283, 971933, 972571, 973197, 973810, 974412,
     975002, 975581, 976148, 976705, 977250, 977784, 978308, 978822, 979325, 979818, 980301, 980774,
     981237, 981691, 982136, 982571, 982997, 983414, 983823, 984222, 984614, 984997, 985371, 985738,
     986097, 986447, 986791, 987126, 987455, 987776, 988089, 988396, 988696, 988989, 989276, 989556,
     989830, 990097, 990358, 990613, 990863, 991106, 991344, 991576, 991802, 992024, 992240, 992451,
     992656, 992857, 993053, 993244, 993431, 993613, 993790, 993963, 994132, 994297, 994457, 994614,
     994766, 994915, 995060, 995201, 995339, 995473, 995604, 995731, 995855, 995975, 996093, 996207,
     996319, 996427, 996533, 996636, 996736, 996833, 996928, 997020, 997110, 997197, 997282, 997365,
     997445, 997523, 997599, 997673, 997744, 997814, 997882, 997948, 998012, 998074, 998134, 998193,
     998250, 998305, 998359, 998411, 998462, 998511, 998559, 998605, 998650, 998694, 998736, 998777,
     998817, 998856, 998893, 998930, 998965, 998999, 999032, 999065, 999096, 999126, 999155, 999184,
     999211, 999238, 999264, 999289, 999313, 999336, 999359, 999381, 999402, 999423, 999443, 999462,
     999481, 999499, 999517, 999534, 999550, 999566, 999581, 999596, 999610, 999624, 999638, 999651,
     999663, 999675, 999687, 999698, 999709, 999720, 999730, 999740, 999749, 999758, 999767, 999776,
     999784, 999792, 999800, 999807, 999815, 999822, 999828, 999835, 999841, 999847, 999853, 999858,
     999864, 999869, 999874, 999879, 999883, 999888, 999892, 999896, 999900, 999904, 999908, 999912,
     999915, 999918, 999922, 999925, 999928, 999931, 999933, 999936, 999938, 999941, 999943, 999946,
     999948, 999950, 999952, 999954, 999956, 999958, 999959, 999961, 999963, 999964, 999966, 999967,
     999968, 999970, 999971, 999972, 999973, 999974, 999975, 999976, 999977, 999978, 999979, 999980,
     999981, 999982, 999983, 999983, 999984, 999985, 999985, 999986, 999987, 999987, 999988, 999988,
     999989, 999989, 999990, 999990, 999991, 999991, 999991, 999992, 999992, 999993, 999993, 999993,
     999993, 999994, 999994, 999994, 999995, 999995, 999995, 999995, 999996, 999996, 999996, 999996,
     999996, 999996, 999997, 999997, 999997, 999997, 999997, 999997, 999997, 999998, 999998, 999998,
     999998, 999998, 999998, 999998, 999998, 999998, 999998, 999998, 999999, 999999, 999999, 999999,
     999999, 999999, 999999, 999999, 999999, 999999, 999999, 999999, 999999, 999999, 999999, 999999,
     999999, 999999, 999999, 999999, 999999, 999999, 1000000, 1000000, 1000000, 1000000, 1000000, 1000000,
     1000000, 1000000, 1000000, 1000000, 1000000 >>

\* _phi on the same grid, in millionths
PdfTable ==
  << 1, 2, 2, 2, 2, 2, 2, 2, 2, 2, 2, 3,
     3, 3, 3, 3, 3, 3, 4, 4, 4, 4, 4, 5,
     5, 5, 5, 6, 6, 6, 6, 7, 7, 7, 8, 8,
     8, 9, 9, 10, 10, 11, 11, 12, 12, 13, 13, 14,
     15, 15, 16, 17, 17, 18, 19, 20, 21, 22, 23, 24,
     25, 26, 27, 28, 30, 31, 32, 34, 35, 37, 39, 40,
     42, 44, 46, 48, 50, 52, 54, 57, 59, 61, 64, 67,
     70, 73, 76, 79, 82, 86, 89, 93, 97, 101, 105, 109,
     114, 119, 124, 129, 134, 139, 145, 151, 157, 163, 170, 177,
     184, 191, 199, 207, 215, 223, 232, 241, 251, 260, 271, 281,
     292, 303, 315, 327, 340, 353, 366, 380, 394, 409, 425, 441,
     457, 474, 492, 510, 529, 549, 569, 590, 612, 634, 657, 681,
     706, 732, 758, 785, 814, 843, 873, 904, 936, 969, 1003, 1038,
     1075, 1112, 1151, 1191, 1232, 1275, 1319, 1364, 1411, 1459, 1508, 1560,
     1612, 1667, 1723, 1780, 1840, 1901, 1964, 2029, 2096, 2165, 2236, 2309,
     2384, 2461, 2541, 2623, 2707, 2794, 2884, 2975, 3070, 3167, 3267, 3370,
     3475, 3584, 3695, 3810, 3928, 4049, 4173, 4301, 4432, 4567, 4705, 4847,
     4993, 5143, 5296, 5454, 5616, 5782, 5953, 6127, 6307, 6491, 6679, 6873,
     7071, 7274, 7483, 7697, 7915, 8140, 8370, 8605, 8846, 9094, 9347, 9606,
     9871, 10143, 10421, 10706, 10997, 11295, 11600, 11912, 12232, 12558, 12892, 13234,
     13583, 13940, 14305, 14678, 15060, 15449, 15848, 16254, 16670, 17095, 17528, 17971,
     18423, 18885, 19356, 19837, 20328, 20829, 21341, 21862, 22395, 22937, 23491, 24056,
     24631, 25218, 25817, 26426, 27048, 27682, 28327, 28985, 29655, 30337, 31032, 31740,
     32460, 33194, 33941, 34701, 35475, 36262, 37063, 37878, 38707, 39550, 40408, 41280,
     42166, 43067, 43984, 44915, 45861, 46823, 47800, 48792, 49800, 50824, 51864, 52919,
     53991, 55079, 56183, 57304, 58441, 59595, 60765, 61952, 63157, 64378, 65616, 66871,
     68144, 69433, 70740, 72065, 73407, 74766, 76143, 77538, 78950, 80380, 81828, 83293,
     84776, 86277, 87796, 89333, 90887, 92459, 94049, 95657, 97282, 98925, 100586, 102265,
     103961, 105675, 107406, 109155, 110921, 112704, 114505, 116323, 118157, 120009, 121878, 123763,
     125665, 127583, 129518, 131468, 133435, 135418, 137417, 139431, 141460, 143505, 145564, 147639,
     149727, 151831, 153948, 156080, 158225, 160383, 162555, 164740, 166937, 169147, 171369, 173602,
     175847, 178104, 180371, 182649, 184937, 187235, 189543, 191860, 194186, 196520, 198863, 201214,
     203571, 205936, 208308, 210686, 213069, 215458, 217852, 220251, 222653, 225060, 227470, 229882,
     232297, 234714, 237132, 239551, 241971, 244390, 246809, 249228, 251644, 254059, 256471, 258881,
     261286, 263688, 266085, 268477, 270864, 273244, 275618, 277985, 280344, 282694, 285036, 287369,
     289692, 292004, 294305, 296595, 298872, 301137, 303389, 305627, 307851, 310060, 312254, 314432,
     316593, 318737, 320864, 322972, 325062, 327133, 329184, 331215, 333225, 335213, 337180, 339124,
     341046, 342944, 344818, 346668, 348493, 350292, 352065, 353812, 355533, 357225, 358890, 360527,
     362135, 363714, 365263, 366782, 368270, 369728, 371154, 372548, 373911, 375240, 376537, 377801,
     379031, 380226, 381388, 382515, 383606, 384663, 385683, 386668, 387617, 388529, 389404, 390242,
     391043, 391806, 392531, 393219, 393868, 394479, 395052, 395585, 396080, 396536, 396953, 397330,
     397668, 397966, 398225, 398444, 398623, 398763, 398862, 398922, 398942, 398922, 398862, 398763,
     398623, 398444, 398225, 397966, 397668, 397330, 396953, 396536, 396080, 395585, 395052, 394479,
     393868, 393219, 392531, 391806, 391043, 390242, 389404, 388529, 387617, 386668, 385683, 384663,
     383606, 382515, 381388, 380226, 379031, 377801, 376537, 375240, 373911, 372548, 371154, 369728,
     368270, 366782, 365263, 363714, 362135, 360527, 358890, 357225, 355533, 353812, 352065, 350292,
     348493, 346668, 344818, 342944, 341046, 339124, 337180, 335213, 333225, 331215, 329184, 327133,
     325062, 322972, 320864, 318737, 316593, 314432, 312254, 310060, 307851, 305627, 303389, 301137,
     298872, 296595, 294305, 292004, 289692, 287369, 285036, 282694, 280344, 277985, 275618, 273244,
     270864, 268477, 266085, 263688, 261286, 258881, 256471, 254059, 251644, 249228, 246809, 244390,
     241971, 239551, 237132, 234714, 232297, 229882, 227470, 225060, 222653, 220251, 217852, 215458,
     213069, 210686, 208308, 205936, 203571, 201214, 198863, 196520, 194186, 191860, 189543, 187235,
     184937, 182649, 180371, 178104, 175847, 173602, 171369, 169147, 166937, 164740, 162555, 160383,
     158225, 156080, 153948, 151831, 149727, 147639, 145564, 143505, 141460, 139431, 137417, 135418,
     133435, 131468, 129518, 127583, 125665, 123763, 121878, 120009, 118157, 116323, 114505, 112704,
     110921, 109155, 107406, 105675, 103961, 102265, 100586, 98925, 97282, 95657, 94049, 92459,
     90887, 89333, 87796, 86277, 84776, 83293, 81828, 80380, 78950, 77538, 76143, 74766,
     73407, 72065, 70740, 69433, 68144, 66871, 65616, 64378, 63157, 61952, 60765, 59595,
     58441, 57304, 56183, 55079, 53991, 52919, 51864, 50824, 49800, 48792, 47800, 46823,
     45861, 44915, 43984, 43067, 42166, 41280, 40408, 39550, 38707, 37878, 37063, 36262,
     35475, 34701, 33941, 33194, 32460, 31740, 31032, 30337, 29655, 28985, 28327, 27682,
     27048, 26426, 25817, 25218, 24631, 24056, 23491, 22937, 22395, 21862, 21341, 20829,
     20328, 19837, 19356, 18885, 18423, 17971, 17528, 17095, 16670, 16254, 15848, 15449,
     15060, 14678, 14305, 13940, 13583, 13234, 12892, 12558, 12232, 11912, 11600, 11295,
     10997, 10706, 10421, 10143, 9871, 9606, 9347, 9094, 8846, 8605, 8370, 8140,
     7915, 7697, 7483, 7274, 7071, 6873, 6679, 6491, 6307, 6127, 5953, 5782,
     5616, 5454, 5296, 5143, 4993, 4847, 4705, 4567, 4432, 4301, 4173, 4049,
     3928, 3810, 3695, 3584, 3475, 3370, 3267, 3167, 3070, 2975, 2884, 2794,
     2707, 2623, 2541, 2461, 2384, 2309, 2236, 2165, 2096, 2029, 1964, 1901,
     1840, 1780, 1723, 1667, 1612, 1560, 1508, 1459, 1411, 1364, 1319, 1275,
     1232, 1191, 1151, 1112, 1075, 1038, 1003, 969, 936, 904, 873, 843,
     814, 785, 758, 732, 706, 681, 657, 634, 612, 590, 569, 549,
     529, 510, 492, 474, 457, 441, 425, 409, 394, 380, 366, 353,
     340, 327, 315, 303, 292, 281, 271, 260, 251, 241, 232, 223,
     215, 207, 199, 191, 184, 177, 170, 163, 157, 151, 145, 139,
     134, 129, 124, 119, 114, 109, 105, 101, 97, 93, 89, 86,
     82, 79, 76, 73, 70, 67, 64, 61, 59, 57, 54, 52,
     50, 48, 46, 44, 42, 40, 39, 37, 35, 34, 32, 31,
     30, 28, 27, 26, 25, 24, 23, 22, 21, 20, 19, 18,
     17, 17, 16, 15, 15, 14, 13, 13, 12, 12, 11, 11,
     10, 10, 9, 9, 8, 8, 8, 7, 7, 7, 6, 6,
     6, 6, 5, 5, 5, 5, 4, 4, 4, 4, 4, 3,
     3, 3, 3, 3, 3, 3, 2, 2, 2, 2, 2, 2,
     2, 2, 2, 2, 1 >>

\* Densite normale standard: exp(-x*x/2) / sqrt(2*pi); underflows to 0
\* beyond the table
_phi(x) == IF Abs(x) > TableHalf THEN 0 ELSE PdfTable[x + TableHalf + 1]

\* CDF de la normale standard: 0.5 * (1 + erf(x / sqrt(2))); erf saturates
\* at -1 and 1 beyond the table
_Phi(x) ==
  IF x < -TableHalf THEN 0
  ELSE IF x > TableHalf THEN PScale
  ELSE CdfTable[x + TableHalf + 1]

\* the guard 1e-12 of the moment functions lies below the resolution of the
\* distribution function: the smallest positive value stands for it
DenomGuard == 1

\* t (hundredths) in the scale of v and w (thousandths)
TtoV(t) == RDiv(t * VScale, TScale)

\* v(t) pour victoire/defaite
_v_truncate(t) ==
  LET denom == _Phi(t)
  IN  IF denom < DenomGuard THEN -TtoV(t)
      ELSE RDiv(_phi(t) * VScale, denom)

\* w(t) pour victoire/defaite
_w_truncate(t) ==
  LET v == _v_truncate(t)
  IN  RDiv(v * (v + TtoV(t)), VScale)

\* _v_draw with the lower limit of the draw interval at -t instead of -eps - t
_v_draw_lopsided(t, eps) ==
  LET a == -t
      b == eps - t
      denom == _Phi(b) - _Phi(a)
  IN  IF denom < DenomGuard THEN 0
      ELSE RDiv((_phi(a) - _phi(b)) * VScale, denom)

\* v(t, eps) pour le cas nul
_v_draw(t, eps) ==
  LET a == -eps - t
      b == eps - t
      denom == _Phi(b) - _Phi(a)
  IN  IF denom < DenomGuard THEN 0
      ELSE RDiv((_phi(a) - _phi(b)) * VScale, denom)

\* w(t, eps) pour le cas nul
_w_draw(t, eps) ==
  LET a == -eps - t
      b == eps - t
      denom == _Phi(b) - _Phi(a)
      v == _v_draw(t, eps)
  IN  IF denom < DenomGuard THEN 0
      ELSE RDiv(v * v, VScale)
           + RDiv((b * _phi(b) - a * _phi(a)) * (VScale \div TScale), denom)

\* the search interval [-10, 10] and the number of bisection steps
SearchBound == 10 * TScale
BisectionSteps == 80

RECURSIVE Bisect(_, _, _, _)
\* the loop of _draw_margin: n steps left, the bracket <<lo, hi>> it ends with
Bisect(n, lo, hi, target) ==
  IF n = 0 THEN <<lo, hi>>
  ELSE LET mid == (lo + hi) \div 2
       IN  IF _Phi(mid) < target THEN Bisect(n - 1, mid, hi, target)
                                 ELSE Bisect(n - 1, lo, mid, target)

\* eps = z * sqrt(2) * beta with Phi(z) = (draw_probability + 1) / 2
_draw_margin(beta, draw_probability) ==
  LET target == RDiv(draw_probability * (PScale \div 100) + PScale, 2)
      br == Bisect(BisectionSteps, -SearchBound, SearchBound, target)
      \* z = (lo + hi) / 2, kept in half hundredths
      z2 == br[1] + br[2]
  IN  RDiv(z2 * _SQRT2 * beta, 2 * TScale * 1000)

(***************************************************************************)
(* Player and TrueSkillEnv (core.py, lines 73-130).                        *)
(***************************************************************************)
\* the environments the model constructs: the fixed-point unit and the
\* arguments of TrueSkillEnv(...)
Configs ==
  { \* the defaults of __init__: 25, 25/3, 25/6, 25/300, 0.10, 0.0
    [unit |-> "1/12", mu0 |-> 300, sigma0 |-> 100, beta |-> 50, tau |-> 1,
     draw_probability |-> 10, trust |-> 0],
    \* a volatile environment: large drift, trust = 1, players known well
    [unit |-> "1/12", mu0 |-> 300, sigma0 |-> 40, beta |-> 50, tau |-> 30,
     draw_probability |-> 20, trust |-> 1],
    \* the defaults without drift: tau = 0
    [unit |-> "1/12", mu0 |-> 300, sigma0 |-> 100, beta |-> 50, tau |-> 0,
     draw_probability |-> 10, trust |-> 0],
    \* a micro-scale environment: sigma0 = 2e-5, beta = 5e-5, no drift
    [unit |-> "1e-5", mu0 |-> 0, sigma0 |-> 2, beta |-> 5, tau |-> 0,
     draw_probability |-> 50, trust |-> 0] }

\* TrueSkillEnv.__init__
TrueSkillEnv(mu0, sigma0, beta, tau, draw_probability, trust) ==
  [mu0 |-> mu0, sigma0 |-> sigma0, beta |-> beta, tau |-> tau,
   draw_probability |-> draw_probability, trust |-> trust,
   eps |-> _draw_margin(beta, draw_probability)]

\* the dataclass Player
Player(name, mu, sigma) == [name |-> name, mu |-> mu, sigma |-> sigma]

\* make_player leaving mu and sigma to the defaults of the dataclass (25 and
\* 25/3, in twelfths) instead of passing mu0 and sigma0
make_player_defaults(e, name) == Player(name, 300, 100)

\* TrueSkillEnv.make_player
make_player(e, name) == Player(name, e.mu0, e.sigma0)

\* TrueSkillEnv._apply_drift: the player after the call
_apply_drift(e, p) ==
  [p EXCEPT !.sigma = Sqrt(p.sigma * p.sigma + e.tau * e.tau)]

\* the literal 1e-9 of _rate_two_teams, in unit^2: exactly 10 at the unit
\* 1e-5; below the resolution at the unit 1/12, where the smallest positive
\* variance stands for it
FLOOR(u) == IF u = "1e-5" THEN 10 ELSE 1

(***************************************************************************)
(* TrueSkillEnv._rate_two_teams (core.py, lines 188-255).  Teams are       *)
(* sequences of player identities (indices into the sequence of Player     *)
(* objects); ps is the state of the Player objects.                        *)
(***************************************************************************)
\* a dict with d[k] = x set
Put(d, k, x) == [y \in (DOMAIN d) \cup {k} |-> IF y = k THEN x ELSE d[y]]

\* the empty dict
EmptyDict == [y \in {} |-> 0]

\* sum(p.mu for p in team)
SumMu(ps, team) == SumSeq([i \in 1..Len(team) |-> ps[team[i]].mu])

\* sum(p.sigma * p.sigma for p in team)
SumSigma2(ps, team) ==
  SumSeq([i \in 1..Len(team) |-> ps[team[i]].sigma * ps[team[i]].sigma])

\* PerfNoise without the term of trust
PerfNoiseWithoutTrust(e, p) == e.beta * e.beta

\* beta^2 + trust * sigma^2, the contribution of one player to perf_noise
PerfNoise(e, p) == e.beta * e.beta + e.trust * (p.sigma * p.sigma)

\* c = sqrt(sig2_w + sig2_l + perf_noise)
CombinedScale(e, ps, team_winner, team_loser) ==
  Sqrt(SumSigma2(ps, team_winner)
       + SumSigma2(ps, team_loser)
       + SumSeq([i \in 1..Len(team_winner) |-> PerfNoise(e, ps[team_winner[i]])])
       + SumSeq([i \in 1..Len(team_loser) |-> PerfNoise(e, ps[team_loser[i]])]))

\* t = (mu_w - mu_l) / c, the normalized mean difference (c > 0)
MeanDifference(ps, team_winner, team_loser, c) ==
  RDiv((SumMu(ps, team_winner)
        - SumMu(ps, team_loser)) * TScale, c)

\* MomentV with a draw treated as a win of the first team
MomentVIgnoresDraw(e, t, c, is_draw) == _v_truncate(t)

\* v: the draw moment at the margin eps / c, or the win/loss moment
MomentV(e, t, c, is_draw) ==
  IF is_draw THEN _v_draw(t, RDiv(e.eps * TScale, c)) ELSE _v_truncate(t)

\* w, likewise
MomentW(e, t, c, is_draw) ==
  IF is_draw THEN _w_draw(t, RDiv(e.eps * TScale, c)) ELSE _w_truncate(t)

\* (sigma2 / c) * v, the size of the mean shift
MeanShift(sigma2, c, v) == RDiv(sigma2 * v, c * VScale)

\* NewSigma without the floor (clamped at 0) and dividing by c, not c * c
NewSigmaUnclamped(sigma2, c, w, floor) ==
  Sqrt(Max(0, RDiv(sigma2 * (VScale - RDiv(sigma2 * w, c)), VScale)))

\* NewSigma with the sign of the correction wrong: 1.0 + (sigma2 / c^2) * w
NewSigmaGrowing(sigma2, c, w, floor) ==
  Sqrt(Max(floor,
           RDiv(sigma2 * (VScale + RDiv(sigma2 * w, c * c)), VScale)))

\* sqrt(max(1e-9, sigma2 * (1.0 - (sigma2 / (c * c)) * w)))
NewSigma(sigma2, c, w, floor) ==
  Sqrt(Max(floor,
           RDiv(sigma2 * (VScale - RDiv(sigma2 * w, c * c)), VScale)))

\* UpdatePlayer writing to every player of the name of p, as if players
\* were looked up by name
UpdatePlayerByName(acc, id, sign, c, v, w, floor) ==
  LET p == acc.ps[id]
      sigma2 == p.sigma * p.sigma
      old_mu == p.mu
      new_mu == old_mu + sign * MeanShift(sigma2, c, v)
      new_sigma == NewSigma(sigma2, c, w, floor)
  IN  [ps |-> [i \in DOMAIN acc.ps |->
                 IF acc.ps[i].name = p.name
                 THEN Player(p.name, new_mu, new_sigma)
                 ELSE acc.ps[i]],
       delta_mu |-> Put(acc.delta_mu, p.name, new_mu - old_mu),
       new_sigma |-> Put(acc.new_sigma, p.name, new_sigma)]

\* UpdatePlayer with the loser's shift added as the winner's is
UpdatePlayerUnsigned(acc, id, sign, c, v, w, floor) ==
  LET p == acc.ps[id]
      sigma2 == p.sigma * p.sigma
      old_mu == p.mu
      new_mu == old_mu + MeanShift(sigma2, c, v)
      new_sigma == NewSigma(sigma2, c, w, floor)
  IN  [ps |-> [acc.ps EXCEPT ![id] = Player(p.name, new_mu, new_sigma)],
       delta_mu |-> Put(acc.delta_mu, p.name, new_mu - old_mu),
       new_sigma |-> Put(acc.new_sigma, p.name, new_sigma)]

\* one iteration of the loops over team_winner (sign = 1) and team_loser
\* (sign = -1): acc holds the players and the two dicts of the report
UpdatePlayer(acc, id, sign, c, v, w, floor) ==
  LET p == acc.ps[id]
      sigma2 == p.sigma * p.sigma
      old_mu == p.mu
      new_mu == old_mu + sign * MeanShift(sigma2, c, v)
      new_sigma == NewSigma(sigma2, c, w, floor)
  IN  [ps |-> [acc.ps EXCEPT ![id] = Player(p.name, new_mu, new_sigma)],
       delta_mu |-> Put(acc.delta_mu, p.name, new_mu - old_mu),
       new_sigma |-> Put(acc.new_sigma, p.name, new_sigma)]

RECURSIVE UpdateTeam(_, _, _, _, _, _, _)
\* for p in team: ... (in the order of the team, each on the state left by
\* the one before)
UpdateTeam(acc, team, sign, c, v, w, floor) ==
  IF team = << >> THEN acc
  ELSE UpdateTeam(UpdatePlayer(acc, Head(team), sign, c, v, w, floor),
                  Tail(team), sign, c, v, w, floor)

\* the names of a team's players
NamesOf(ps, team) == [i \in 1..Len(team) |-> ps[team[i]].name]

\* an Optional[EPUpdateReport]: None is the empty sequence, a report rep the
\* sequence <<rep>>
None == << >>

\* lines 196-240 of _rate_two_teams: the players and the quantities of the
\* report after the two loops, or raised when the division by c = 0 raises
\* ZeroDivisionError (before any player is updated)
TeamsUpdate(e, u, ps, team_winner, team_loser, is_draw) ==
  LET c == CombinedScale(e, ps, team_winner, team_loser)
  IN  IF c = 0
      THEN [ps |-> ps, raised |-> TRUE, c |-> c, t |-> 0, v |-> 0, w |-> 0,
            delta_mu |-> EmptyDict, new_sigma |-> EmptyDict]
      ELSE
        LET t == MeanDifference(ps, team_winner, team_loser, c)
            v == MomentV(e, t, c, is_draw)
            w == MomentW(e, t, c, is_draw)
            acc0 == [ps |-> ps, delta_mu |-> EmptyDict, new_sigma |-> EmptyDict]
            acc1 == UpdateTeam(acc0, team_winner, 1, c, v, w, FLOOR(u))
            acc2 == UpdateTeam(acc1, team_loser, -1, c, v, w, FLOOR(u))
        IN  [ps |-> acc2.ps, raised |-> FALSE, c |-> c, t |-> t, v |-> v,
             w |-> w, delta_mu |-> acc2.delta_mu, new_sigma |-> acc2.new_sigma]

\* EPUpdateReport carrying eps / c, the margin as _v_draw receives it
EPUpdateReportScaledEps(e, ps, team_winner, team_loser, is_draw, upd) ==
  [is_draw |-> is_draw, eps |-> RDiv(e.eps * TScale, upd.c), c |-> upd.c,
   t |-> upd.t, v |-> upd.v, w |-> upd.w,
   team_winner |-> NamesOf(ps, team_winner),
   team_loser |-> NamesOf(ps, team_loser),
   delta_mu |-> upd.delta_mu, new_sigma |-> upd.new_sigma]

\* lines 244-255: the EPUpdateReport of an update upd
EPUpdateReport(e, ps, team_winner, team_loser, is_draw, upd) ==
  [is_draw |-> is_draw, eps |-> e.eps, c |-> upd.c, t |-> upd.t,
   v |-> upd.v, w |-> upd.w,
   team_winner |-> NamesOf(ps, team_winner),
   team_loser |-> NamesOf(ps, team_loser),
   delta_mu |-> upd.delta_mu, new_sigma |-> upd.new_sigma]

\* _rate_two_teams updating the players only when a report is collected
_rate_two_teams_only_collecting(e, u, ps, team_winner, team_loser, is_draw, collect) ==
  LET upd == TeamsUpdate(e, u, ps, team_winner, team_loser, is_draw)
  IN  IF upd.raised THEN [ps |-> ps, rep |-> None, raised |-> TRUE]
      ELSE IF ~collect THEN [ps |-> ps, rep |-> None, raised |-> FALSE]
      ELSE [ps |-> upd.ps,
            rep |-> <<EPUpdateReport(e, ps, team_winner, team_loser, is_draw, upd)>>,
            raised |-> FALSE]

\* _rate_two_teams: the players after the call, the value returned and
\* whether ZeroDivisionError was raised
_rate_two_teams(e, u, ps, team_winner, team_loser, is_draw, collect) ==
  LET upd == TeamsUpdate(e, u, ps, team_winner, team_loser, is_draw)
  IN  IF upd.raised THEN [ps |-> ps, rep |-> None, raised |-> TRUE]
      ELSE [ps |-> upd.ps,
            rep |-> IF ~collect THEN None
                    ELSE <<EPUpdateReport(e, ps, team_winner, team_loser,
                                          is_draw, upd)>>,
            raised |-> FALSE]

(***************************************************************************)
(* TrueSkillEnv.rate (core.py, lines 132-186).  Python indexes teams and   *)
(* ranks from 0, the model from 1.                                         *)
(***************************************************************************)
\* Precondition without the comparison of the two lengths
PreconditionLengthUnchecked(teams, ranks) ==
  IF Len(teams) < 2 THEN "ValueError" ELSE "ok"

\* lines 148-151: the exception raised, or "ok"
Precondition(teams, ranks) ==
  IF Len(teams) # Len(ranks) THEN "ValueError"
  ELSE IF Len(teams) < 2 THEN "ValueError"
  ELSE "ok"

RECURSIVE Flatten(_)
\* the players of the teams in the order of the two loops of lines 154-155
Flatten(teams) ==
  IF teams = << >> THEN << >> ELSE Head(teams) \o Flatten(Tail(teams))

RECURSIVE DriftAll(_, _, _)
\* lines 154-156: _apply_drift on each of ids in turn; acc.ps are the
\* players, acc.n counts the calls of _apply_drift per player
DriftAll(e, acc, ids) ==
  IF ids = << >> THEN acc
  ELSE LET id == Head(ids)
       IN  DriftAll(e,
                    [ps |-> [acc.ps EXCEPT ![id] = _apply_drift(e, acc.ps[id])],
                     n |-> [acc.n EXCEPT ![id] = acc.n[id] + 1]],
                    Tail(ids))

\* for team in teams: for p in team: self._apply_drift(p)
DriftTeams(e, ps, teams) ==
  DriftAll(e, [ps |-> ps, n |-> [id \in 1..Len(ps) |-> 0]], Flatten(teams))

RECURSIVE Insert(_, _, _)
\* i put into the sorted sequence s of indices, after every index whose
\* rank is not larger
Insert(s, i, ranks) ==
  IF s = << >> THEN <<i>>
  ELSE IF ranks[Head(s)] <= ranks[i] THEN <<Head(s)>> \o Insert(Tail(s), i, ranks)
  ELSE <<i>> \o s

RECURSIVE SortPrefix(_, _)
\* the first n indices sorted by rank, equal ranks in index order
SortPrefix(n, ranks) ==
  IF n = 0 THEN << >> ELSE Insert(SortPrefix(n - 1, ranks), n, ranks)

\* SortedOrder without the sort: the teams in the order they were given
SortedOrderAsGiven(ranks) == [i \in 1..Len(ranks) |-> i]

\* line 162: sorted(range(len(teams)), key=lambda i: ranks[i]), a stable sort
SortedOrder(ranks) == SortPrefix(Len(ranks), ranks)

\* the number of calls of _rate_two_teams a call of rate makes
NumPairings(teams) == IF Len(teams) > 2 THEN Len(teams) - 1 ELSE 1

\* Pairing with every team of a multi-team call against the best one,
\* instead of against its neighbour in the order
PairingAgainstBest(teams, ranks, k) ==
  IF Len(teams) > 2
  THEN LET order == SortPrefix(Len(ranks), ranks)
           a == order[1]
           b == order[k + 1]
       IN  [winner |-> a, loser |-> b, is_draw |-> (ranks[a] = ranks[b])]
  ELSE IF ranks[1] = ranks[2] THEN [winner |-> 1, loser |-> 2, is_draw |-> TRUE]
  ELSE IF ranks[1] < ranks[2] THEN [winner |-> 1, loser |-> 2, is_draw |-> FALSE]
  ELSE [winner |-> 2, loser |-> 1, is_draw |-> FALSE]

\* Pairing with the first of two teams always passed as the winner
PairingFirstWins(teams, ranks, k) ==
  IF Len(teams) > 2
  THEN LET order == SortPrefix(Len(ranks), ranks)
           a == order[k]
           b == order[k + 1]
       IN  [winner |-> a, loser |-> b, is_draw |-> (ranks[a] = ranks[b])]
  ELSE [winner |-> 1, loser |-> 2, is_draw |-> (ranks[1] = ranks[2])]

\* the k-th call of _rate_two_teams: the indices of the teams passed as
\* team_winner and team_loser, and is_draw (lines 163-166 and 172-182)
Pairing(teams, ranks, k) ==
  IF Len(teams) > 2
  THEN LET order == SortedOrder(ranks)
           a == order[k]
           b == order[k + 1]
       IN  [winner |-> a, loser |-> b, is_draw |-> (ranks[a] = ranks[b])]
  ELSE IF ranks[1] = ranks[2] THEN [winner |-> 1, loser |-> 2, is_draw |-> TRUE]
  ELSE IF ranks[1] < ranks[2] THEN [winner |-> 1, loser |-> 2, is_draw |-> FALSE]
  ELSE [winner |-> 2, loser |-> 1, is_draw |-> FALSE]

\* the value rate returns after its last pairing (lines 169, 175, 184-186):
\* kind "list" with the reports, or kind "None"
ReturnValue(teams, return_report, reports) ==
  IF Len(teams) > 2
  THEN IF return_report THEN [kind |-> "list", reports |-> reports]
                        ELSE [kind |-> "None", reports |-> << >>]
  ELSE IF return_report /\ reports # << >>
       THEN [kind |-> "list", reports |-> reports]
       ELSE [kind |-> "None", reports |-> << >>]

RECURSIVE RunPairings(_, _, _, _, _, _, _)
\* the calls of _rate_two_teams from the k-th on, on the players ps with
\* the reports reps collected so far: the players and the result of rate
RunPairings(e, u, ps, teams, ranks, return_report, kreps) ==
  LET k == kreps[1]
      reps == kreps[2]
      pr == Pairing(teams, ranks, k)
      r == _rate_two_teams(e, u, ps, teams[pr.winner], teams[pr.loser],
                           pr.is_draw, return_report)
  IN  IF r.raised
      THEN [ps |-> ps, result |-> [kind |-> "ZeroDivisionError", reports |-> << >>]]
      ELSE IF k = NumPairings(teams)
      THEN [ps |-> r.ps, result |-> ReturnValue(teams, return_report, reps \o r.rep)]
      ELSE RunPairings(e, u, r.ps, teams, ranks, return_report, <<k + 1, reps \o r.rep>>)

\* rate as a function: the players after the call and its result
rate(e, u, ps, teams, ranks, return_report) ==
  IF Precondition(teams, ranks) # "ok"
  THEN [ps |-> ps, result |-> [kind |-> Precondition(teams, ranks), reports |-> << >>]]
  ELSE RunPairings(e, u, DriftTeams(e, ps, teams).ps, teams, ranks,
                   return_report, <<1, << >>>>)

(***************************************************************************)
(* The state: the environment, the Player objects the callers hold, and    *)
(* the call of rate in progress.                                           *)
(***************************************************************************)
VARIABLES
  unit,      \* the fixed-point unit of the environment
  env,       \* the TrueSkillEnv object
  players,   \* the Player objects created so far, in creation order
  pc,        \* "idle", "pairing" (inside rate, after the drift loop) or
             \* "returned" (rate has returned or raised)
  call,      \* the arguments of the call of rate in progress, and the
             \* number k of the next pairing
  reports,   \* the local list reports of rate
  result,    \* how the call ended: kind "None" or "list" (returned), or
             \* the name of the exception raised
  ncalls,    \* the calls of rate completed
  pre,       \* history: the players when the call was entered
  before,    \* history: the players before the latest _rate_two_teams
  drifted,   \* history: per player, the calls of _apply_drift in this call
  pairings,  \* history: the calls of _rate_two_teams made by this call
  search     \* the locals of the call of _draw_margin in progress

vars == <<unit, env, players, pc, call, reports, result, ncalls, pre, before,
          drifted, pairings, search>>

NoCall == [teams |-> << >>, ranks |-> << >>, return_report |-> FALSE, k |-> 0]

NoResult == [kind |-> "none", reports |-> << >>]

Ids == 1..Len(players)

\* no call of _draw_margin in progress
NoSearch == [beta |-> 0, draw_probability |-> 0, target |-> 0, lo |-> 0,
             hi |-> 0, n |-> 0, done |-> FALSE, z2 |-> 0, eps |-> 0]

Init ==
  /\ \E cfg \in Configs :
       /\ unit = cfg.unit
       /\ env = TrueSkillEnv(cfg.mu0, cfg.sigma0, cfg.beta, cfg.tau,
                             cfg.draw_probability, cfg.trust)
  /\ players = << >>
  /\ pc = "idle"
  /\ call = NoCall
  /\ reports = << >>
  /\ result = NoResult
  /\ ncalls = 0
  /\ pre = << >>
  /\ before = << >>
  /\ drifted = << >>
  /\ pairings = << >>
  /\ search = NoSearch

\* p = env.make_player(name)
MakePlayer(name) ==
  /\ pc = "idle"
  /\ Len(players) < MaxPlayers
  /\ players' = Append(players, make_player(env, name))
  /\ UNCHANGED <<search, unit, env, pc, call, reports, result, ncalls, pre, before,
                 drifted, pairings>>

\* env.rate(teams, ranks, return_report=...) up to the end of the drift
\* loop (lines 148-158)
RateCall(teams, ranks, return_report) ==
  /\ pc = "idle"
  /\ ncalls < MaxCalls
  /\ call' = [teams |-> teams, ranks |-> ranks,
              return_report |-> return_report, k |-> 1]
  /\ pre' = players
  /\ before' = players
  /\ reports' = << >>
  /\ pairings' = << >>
  /\ IF Precondition(teams, ranks) # "ok"
     THEN /\ result' = [kind |-> Precondition(teams, ranks), reports |-> << >>]
          /\ pc' = "returned"
          /\ drifted' = [id \in Ids |-> 0]
          /\ UNCHANGED players
     ELSE /\ players' = DriftTeams(env, players, teams).ps
          /\ drifted' = DriftTeams(env, players, teams).n
          /\ pc' = "pairing"
          /\ UNCHANGED result
  /\ UNCHANGED <<search, unit, env, ncalls>>

\* the next call of _rate_two_teams of the call in progress, and the
\* return of rate after the last one (lines 160-186)
RatePair ==
  /\ pc = "pairing"
  /\ LET pr == Pairing(call.teams, call.ranks, call.k)
         r == _rate_two_teams(env, unit, players, call.teams[pr.winner],
                              call.teams[pr.loser], pr.is_draw,
                              call.return_report)
         reps == reports \o r.rep
     IN  /\ before' = players
         /\ pairings' = Append(pairings, pr)
         /\ IF r.raised
            THEN /\ result' = [kind |-> "ZeroDivisionError", reports |-> << >>]
                 /\ pc' = "returned"
                 /\ UNCHANGED <<players, reports, call>>
            ELSE /\ players' = r.ps
                 /\ reports' = reps
                 /\ IF call.k = NumPairings(call.teams)
                    THEN /\ result' = ReturnValue(call.teams, call.return_report, reps)
                         /\ pc' = "returned"
                         /\ UNCHANGED call
                    ELSE /\ call' = [call EXCEPT !.k = call.k + 1]
                         /\ UNCHANGED <<result, pc>>
  /\ UNCHANGED <<search, unit, env, ncalls, pre, drifted>>

\* the caller takes the result; the locals of the call are gone
Return ==
  /\ pc = "returned"
  /\ pc' = "idle"
  /\ ncalls' = ncalls + 1
  /\ call' = NoCall
  /\ reports' = << >>
  /\ result' = NoResult
  /\ pre' = << >>
  /\ before' = << >>
  /\ drifted' = << >>
  /\ pairings' = << >>
  /\ UNCHANGED <<search, unit, env, players>>

(***************************************************************************)
(* The calls the model makes.  Players are listed in creation order; any   *)
(* team can still win, lose or tie, by its rank.                           *)
(***************************************************************************)
\* the name of the n-th call of make_player: a new name, or the first one
\* again
FreshNames == <<"A", "B", "C", "D", "E">>

NameChoices(n) == {FreshNames[n], FreshNames[1]}

\* matches that meet the preconditions: non-empty teams of up to MaxTeamSize
\* players, no player listed twice, up to MaxTeams teams
Matches(ids) ==
  { tl \in UNION { [1..n -> {t \in UNION { [1..m -> ids] : m \in 1..MaxTeamSize } :
                                \A i \in 1..(Len(t) - 1) : t[i] < t[i + 1]}] :
                   n \in 2..MaxTeams } :
      LET flat == Flatten(tl)
      IN  \A i \in 1..(Len(flat) - 1) : flat[i] < flat[i + 1] }

\* the set of values of a sequence
Range(s) == {s[i] : i \in 1..Len(s)}

\* rankings of n teams: the places 0, 1, ... without gaps
Rankings(n) ==
  { r \in [1..n -> 0..MaxRank] : \E top \in 0..MaxRank : Range(r) = 0..top }

\* n ranks 0
Zeros(n) == [i \in 1..n |-> 0]

\* the calls that meet the preconditions
GoodCalls(ids) ==
  UNION { { [teams |-> tl, ranks |-> r] : r \in Rankings(Len(tl)) } :
          tl \in Matches(ids) }

\* team lists that break a precondition, over the first two players: an
\* empty team, a player listed twice, a player in two teams
BadLists(ids) ==
  IF ids = {} THEN {}
  ELSE { <<(<<1>>), << >>>>, <<(<< >>), <<1>>>>, <<(<< >>), << >>>>,
         <<(<<1>>), <<1>>>> }
       \cup (IF 2 \in ids
             THEN { <<(<<1, 1>>), <<2>>>>, <<(<<1>>), << >>, <<2>>>>,
                    <<(<<1, 2>>), <<1>>>> }
             ELSE {})

\* the calls that break a precondition: fewer than two teams, a list of
\* ranks one short or one long, a bad list of teams
BadCalls(ids) ==
  { [teams |-> << >>, ranks |-> << >>] }
  \cup { [teams |-> <<(<<a>>)>>, ranks |-> <<0>>] : a \in ids \cap {1} }
  \cup { [teams |-> <<(<<1>>), <<2>>>>, ranks |-> Zeros(n)] :
           n \in IF 2 \in ids THEN {1, 3} ELSE {} }
  \cup UNION { { [teams |-> tl, ranks |-> r] : r \in Rankings(Len(tl)) } :
                tl \in BadLists(ids) }

\* the arguments of the calls of rate
Calls(ids) == GoodCalls(ids) \cup BadCalls(ids)

Next ==
  \/ /\ pc = "idle"
     /\ \E name \in NameChoices(Len(players) + 1) : MakePlayer(name)
  \/ /\ pc = "idle"
     /\ ncalls < MaxCalls
     /\ \E c \in Calls(Ids), return_report \in BOOLEAN :
          RateCall(c.teams, c.ranks, return_report)
  \/ RatePair
  \/ Return

Spec == Init /\ [][Next]_vars

(***************************************************************************)
(* _draw_margin step by step (core.py, lines 52-70): the call made by      *)
(* TrueSkillEnv.__init__, for a beta and a draw_probability in [0, 1).     *)
(***************************************************************************)
\* the values of beta of the calls
MarginBetas == {5, 50, 100}

\* the values of draw_probability of the calls, in percent: [0, 1)
DrawProbabilities == 0..99

\* Halve with the two branches of the test exchanged
HalveWrongSide(lo, hi, target) ==
  LET mid == (lo + hi) \div 2
  IN  IF _Phi(mid) < target THEN <<lo, mid>> ELSE <<mid, hi>>

\* one iteration of the loop: the bracket <<lo, hi>> after it
Halve(lo, hi, target) ==
  LET mid == (lo + hi) \div 2
  IN  IF _Phi(mid) < target THEN <<mid, hi>> ELSE <<lo, mid>>

\* _draw_margin(beta, draw_probability) is entered: target, lo and hi are
\* set (lines 59-62); no environment exists yet
InitMargin ==
  /\ \E beta \in MarginBetas, draw_probability \in DrawProbabilities :
       search = [beta |-> beta, draw_probability |-> draw_probability,
                 target |-> RDiv(draw_probability * (PScale \div 100) + PScale, 2),
                 lo |-> -SearchBound, hi |-> SearchBound, n |-> 0,
                 done |-> FALSE, z2 |-> 0, eps |-> 0]
  /\ unit = "1/12"
  /\ env = [mu0 |-> 0, sigma0 |-> 0, beta |-> 0, tau |-> 0,
            draw_probability |-> 0, trust |-> 0, eps |-> 0]
  /\ players = << >>
  /\ pc = "__init__"
  /\ call = NoCall
  /\ reports = << >>
  /\ result = NoResult
  /\ ncalls = 0
  /\ pre = << >>
  /\ before = << >>
  /\ drifted = << >>
  /\ pairings = << >>

\* one iteration of for _ in range(80) (lines 63-68)
BisectStep ==
  /\ pc = "__init__"
  /\ ~search.done
  /\ search.n < BisectionSteps
  /\ LET br == Halve(search.lo, search.hi, search.target)
     IN  search' = [search EXCEPT !.lo = br[1], !.hi = br[2], !.n = search.n + 1]
  /\ UNCHANGED <<unit, env, players, pc, call, reports, result, ncalls, pre,
                 before, drifted, pairings>>

\* z = (lo + hi) / 2.0 and the return of z * sqrt(2) * beta (lines 69-70);
\* z is kept doubled, in half hundredths
MarginReturn ==
  /\ pc = "__init__"
  /\ ~search.done
  /\ search.n = BisectionSteps
  /\ search' = [search EXCEPT
                  !.done = TRUE,
                  !.z2 = search.lo + search.hi,
                  !.eps = RDiv((search.lo + search.hi) * _SQRT2 * search.beta,
                               2 * TScale * 1000)]
  /\ UNCHANGED <<unit, env, players, pc, call, reports, result, ncalls, pre,
                 before, drifted, pairings>>

NextMargin ==
  \/ BisectStep
  \/ MarginReturn

\* the loop is a plain for loop: nothing blocks it
SpecMargin == InitMargin /\ [][NextMargin]_vars /\ WF_vars(NextMargin)

(***************************************************************************)
(* Vocabulary of the properties.                                           *)
(***************************************************************************)
\* the players listed in the call in progress
Listed == Flatten(call.teams)

\* no value occurs twice in the sequence s
NoRepeats(s) == \A i, j \in 1..Len(s) : i # j => s[i] # s[j]

\* no player is a member of two of the teams
DisjointTeams(teams) ==
  \A i, j \in 1..Len(teams) : i # j => Range(teams[i]) \cap Range(teams[j]) = {}

\* no team is empty
NonEmptyTeams(teams) == \A i \in 1..Len(teams) : teams[i] # << >>

\* the call in progress passed the checks of lines 148-151
Accepted == pc \in {"pairing", "returned"} /\ result.kind # "ValueError"

\* the call in progress has returned a value
HasReturned == pc = "returned" /\ result.kind \in {"None", "list"}

\* the orders of the indices 1..n
IndexOrders(n) == {f \in [1..n -> 1..n] : Range(f) = 1..n}

(***************************************************************************)
(* C1.  rate raises ValueError whenever len(teams) != len(ranks) or        *)
(* len(teams) < 2, and does so before touching any player: no drift, no    *)
(* pairwise update, every player as it was when the call was entered.      *)
(***************************************************************************)
C1_InvalidArgumentTouchesNoPlayer ==
  (pc # "idle" /\ (Len(call.teams) # Len(call.ranks) \/ Len(call.teams) < 2))
    => /\ pc = "returned"
       /\ result.kind = "ValueError"
       /\ players = pre
       /\ pairings = << >>
       /\ \A id \in Ids : drifted[id] = 0

\* a call with two teams of players and three ranks has raised, in an
\* environment whose drift would have shown
C1_Witness ==
  /\ pc = "returned"
  /\ result.kind = "ValueError"
  /\ Len(call.teams) = 2
  /\ Len(call.ranks) = 3
  /\ NonEmptyTeams(call.teams)
  /\ env.tau > 1

(***************************************************************************)
(* C2.  A call of rate in which a team is empty is reported as an invalid  *)
(* argument (ValueError) and changes no player.                            *)
(***************************************************************************)
C2_EmptyTeamIsRejected ==
  (pc # "idle" /\ ~NonEmptyTeams(call.teams))
    => /\ pc = "returned"
       /\ result.kind = "ValueError"
       /\ players = pre

(***************************************************************************)
(* C3.  In an accepted call, drift is applied to every listed player       *)
(* exactly once, before the first pairwise update, also when the player's  *)
(* team is in two pairings; drift changes sigma to sqrt(sigma^2 + tau^2)   *)
(* and leaves mu alone.  OnceEach is the statement for the calls that      *)
(* satisfy the condition valid.                                            *)
(***************************************************************************)
DriftOnceEach(valid) ==
  (Accepted /\ valid)
    => /\ \A id \in Ids : drifted[id] = IF id \in Range(Listed) THEN 1 ELSE 0
       /\ (pc = "pairing" /\ call.k = 1)
            => \A id \in Ids :
                 players[id] =
                   IF id \in Range(Listed)
                   THEN Player(pre[id].name, pre[id].mu,
                               Sqrt(pre[id].sigma * pre[id].sigma + env.tau * env.tau))
                   ELSE pre[id]

C3_DriftOnceIfListedOnce == DriftOnceEach(NoRepeats(Listed))

\* the second pairing of a call with three teams of one player each, in an
\* environment whose drift shows
C3_Witness ==
  /\ pc = "pairing"
  /\ call.k = 2
  /\ Len(call.teams) = 3
  /\ Len(Listed) = 3
  /\ NoRepeats(Listed)
  /\ env.tau > 1
  /\ \A id \in Ids : drifted[id] = 1

(***************************************************************************)
(* C4.  A call with N > 2 (non-empty) teams makes exactly N-1 pairwise     *)
(* updates, one per pair of neighbours in the order of the team indices    *)
(* sorted by rank, ties in the order given; the earlier team of a pair is  *)
(* passed as the winner, is_draw holds exactly when the two ranks are      *)
(* equal, and the N-1 reports, when asked for, come in that order.         *)
(***************************************************************************)
\* order lists the indices of ranks by rank, equal ranks by index
IsStableOrder(order, ranks) ==
  \A i, j \in 1..Len(ranks) :
    i < j => \/ ranks[order[i]] < ranks[order[j]]
             \/ ranks[order[i]] = ranks[order[j]] /\ order[i] < order[j]

C4_AdjacentPairsInRankOrder ==
  (pc = "returned" /\ Len(call.teams) > 2 /\ Len(call.ranks) = Len(call.teams)
     /\ NonEmptyTeams(call.teams))
    => LET n == Len(call.teams)
       IN  \E order \in IndexOrders(n) :
             /\ IsStableOrder(order, call.ranks)
             /\ HasReturned
             /\ Len(pairings) = n - 1
             /\ \A k \in 1..(n - 1) :
                  pairings[k] =
                    [winner |-> order[k], loser |-> order[k + 1],
                     is_draw |-> (call.ranks[order[k]] = call.ranks[order[k + 1]])]
             /\ IF call.return_report
                THEN /\ result.kind = "list"
                     /\ Len(result.reports) = n - 1
                     /\ \A k \in 1..(n - 1) :
                          /\ result.reports[k].team_winner
                               = NamesOf(pre, call.teams[order[k]])
                          /\ result.reports[k].team_loser
                               = NamesOf(pre, call.teams[order[k + 1]])
                          /\ result.reports[k].is_draw
                               = (call.ranks[order[k]] = call.ranks[order[k + 1]])
                ELSE result.kind = "None"

\* ranks [1, 0, 1] with reports: the second team beats the first, the first
\* ties with the third
C4_Witness ==
  /\ pc = "returned"
  /\ call.ranks = <<1, 0, 1>>
  /\ NonEmptyTeams(call.teams)
  /\ call.return_report
  /\ Len(result.reports) = 2
  /\ pairings = <<[winner |-> 2, loser |-> 1, is_draw |-> FALSE],
                  [winner |-> 1, loser |-> 3, is_draw |-> TRUE]>>

(***************************************************************************)
(* C5.  A call with exactly two teams (no player in both): equal ranks     *)
(* run the pairwise update as a draw; otherwise the team with the smaller  *)
(* rank is passed as the winner whatever its position, its players' means  *)
(* do not decrease, the other team's do not increase, and the report's     *)
(* team_winner lists the names of the team with the smaller rank.          *)
(***************************************************************************)
C5_SmallerRankWins ==
  (HasReturned /\ Len(call.teams) = 2 /\ DisjointTeams(call.teams))
    => LET draw == call.ranks[1] = call.ranks[2]
           w == IF call.ranks[1] <= call.ranks[2] THEN 1 ELSE 2
           l == 3 - w
       IN  /\ pairings = <<[winner |-> w, loser |-> l, is_draw |-> draw]>>
           /\ ~draw =>
                /\ \A id \in Range(call.teams[w]) : players[id].mu >= pre[id].mu
                /\ \A id \in Range(call.teams[l]) : players[id].mu <= pre[id].mu
           /\ IF call.return_report
              THEN /\ result.kind = "list"
                   /\ Len(result.reports) = 1
                   /\ result.reports[1].is_draw = draw
                   /\ result.reports[1].team_winner = NamesOf(pre, call.teams[w])
                   /\ result.reports[1].team_loser = NamesOf(pre, call.teams[l])
              ELSE result.kind = "None"

\* ranks [1, 0] between two single players: the second one has won
C5_Witness ==
  /\ HasReturned
  /\ call.ranks = <<1, 0>>
  /\ call.return_report
  /\ Len(call.teams[1]) = 1
  /\ Len(call.teams[2]) = 1
  /\ players[call.teams[2][1]].mu > pre[call.teams[2][1]].mu
  /\ players[call.teams[1][1]].mu < pre[call.teams[1][1]].mu
  /\ result.reports[1].team_winner = <<pre[call.teams[2][1]].name>>

(***************************************************************************)
(* C6.  return_report influences only the value rate returns: the same     *)
(* call made with the other value of the flag, on the same players in the  *)
(* same environment, leaves every player with the same mu and sigma; the   *)
(* call returns None when the flag is false and the list of the reports of *)
(* its pairwise updates when it is true.                                   *)
(***************************************************************************)
C6_ReportFlagOnlyChangesResult ==
  pc = "returned"
    => LET other == rate(env, unit, pre, call.teams, call.ranks,
                         ~call.return_report)
       IN  /\ players = other.ps
           /\ IF HasReturned
              THEN IF call.return_report
                   THEN /\ result.kind = "list"
                        /\ Len(result.reports) = NumPairings(call.teams)
                        /\ other.result.kind = "None"
                   ELSE /\ result.kind = "None"
                        /\ other.result.kind = "list"
              ELSE other.result.kind = result.kind

\* a call with reports has changed a player and returned them
C6_Witness ==
  /\ HasReturned
  /\ call.return_report
  /\ result.kind = "list"
  /\ \E id \in Ids : players[id].mu # pre[id].mu /\ players[id].sigma # pre[id].sigma

(***************************************************************************)
(* C7.  sigma > 0 for every player at all times: from make_player on, and  *)
(* after every drift and every pairwise update of every call of rate.      *)
(***************************************************************************)
C7_SigmaPositive == \A id \in Ids : players[id].sigma > 0

\* a second call has updated a player whose variance was below the floor
C7_Witness ==
  /\ HasReturned
  /\ ncalls >= 1
  /\ \E id \in Range(Listed) :
       /\ before[id].sigma * before[id].sigma < FLOOR(unit)
       /\ players[id].sigma > 0

(***************************************************************************)
(* C8.  After a non-draw pairwise update every player of the winner team   *)
(* and of the loser team has a sigma no larger than the sigma it had       *)
(* immediately before that update.                                         *)
(***************************************************************************)
\* the latest call of _rate_two_teams was not a draw and did not raise
AfterWinLoss ==
  /\ pc # "idle"
  /\ pairings # << >>
  /\ ~pairings[Len(pairings)].is_draw
  /\ result.kind # "ZeroDivisionError"

\* the players of the latest call of _rate_two_teams
LastPaired ==
  Range(call.teams[pairings[Len(pairings)].winner])
    \cup Range(call.teams[pairings[Len(pairings)].loser])

\* as claimed: for every sigma > 0 before the update
C8_SigmaNeverIncreases ==
  AfterWinLoss => \A id \in LastPaired : players[id].sigma <= before[id].sigma

\* as amended: sigma does not exceed the larger of its value before the
\* update and the square root of the variance floor
C8_SigmaAtMostOldOrFloor ==
  AfterWinLoss
    => \A id \in LastPaired :
         players[id].sigma <= Max(before[id].sigma, Sqrt(FLOOR(unit)))

\* a win has lowered the sigma of both a winner and a loser
C8_Witness ==
  /\ AfterWinLoss
  /\ \E id \in Range(call.teams[pairings[Len(pairings)].winner]) :
       players[id].sigma < before[id].sigma
  /\ \E id \in Range(call.teams[pairings[Len(pairings)].loser]) :
       players[id].sigma < before[id].sigma

(***************************************************************************)
(* C9.  A 1v1 call that is not a draw, between two players with the same   *)
(* mu and the same sigma before the call: the winner's mu increases, the   *)
(* loser's decreases by the same amount, and the sigma of both ends        *)
(* strictly below its value before the call.                               *)
(***************************************************************************)
\* the call in progress is one player against another
OneVsOne ==
  /\ Len(call.teams) = 2
  /\ Len(call.ranks) = 2
  /\ Len(call.teams[1]) = 1
  /\ Len(call.teams[2]) = 1
  /\ call.teams[1][1] # call.teams[2][1]

\* the two players had the same mu and sigma when the call was entered
EqualBefore ==
  /\ pre[call.teams[1][1]].mu = pre[call.teams[2][1]].mu
  /\ pre[call.teams[1][1]].sigma = pre[call.teams[2][1]].sigma

\* the two players were as make_player makes them
FreshBefore ==
  \A i \in 1..2 : /\ pre[call.teams[i][1]].mu = env.mu0
                  /\ pre[call.teams[i][1]].sigma = env.sigma0

\* the environment is TrueSkillEnv() with its default arguments
DefaultEnvironment ==
  /\ unit = "1/12"
  /\ env = TrueSkillEnv(300, 100, 50, 1, 10, 0)

\* winner up, loser down by as much, both sigma strictly down
SymmetricWin ==
  LET w == call.teams[IF call.ranks[1] < call.ranks[2] THEN 1 ELSE 2][1]
      l == call.teams[IF call.ranks[1] < call.ranks[2] THEN 2 ELSE 1][1]
  IN  /\ players[w].mu - pre[w].mu > 0
      /\ players[w].mu - pre[w].mu = -(players[l].mu - pre[l].mu)
      /\ players[w].sigma < pre[w].sigma
      /\ players[l].sigma < pre[l].sigma

C10_EqualPlayersDrawKeepsMeans ==
  (HasReturned /\ OneVsOne /\ call.ranks[1] = call.ranks[2] /\ EqualBefore)
    => /\ \A i \in 1..2 :
            players[call.teams[i][1]].mu = pre[call.teams[i][1]].mu
       /\ call.return_report
            => \A nm \in DOMAIN result.reports[1].delta_mu :
                 result.reports[1].delta_mu[nm] = 0

\* two fresh players of the default environment have drawn, and the update
\* has lowered their sigma
C10_Witness ==
  /\ HasReturned
  /\ OneVsOne
  /\ call.ranks = <<0, 0>>
  /\ call.return_report
  /\ FreshBefore
  /\ DefaultEnvironment
  /\ \A i \in 1..2 : players[call.teams[i][1]].sigma < env.sigma0

(***************************************************************************)
(* C11.  The pairwise draw update is symmetric in its two team arguments:  *)
(* called with is_draw = True as (X, Y) or as (Y, X) it leaves every       *)
(* player with the same mu and sigma, so the order in which tied teams are *)
(* listed in a call of rate does not affect the players.                   *)
(***************************************************************************)
\* the latest call of _rate_two_teams was a draw
AfterDraw ==
  /\ pc # "idle"
  /\ pairings # << >>
  /\ pairings[Len(pairings)].is_draw

\* the players are as the latest call of _rate_two_teams would have left
\* them with its two teams exchanged
DrawArgumentsExchangeable ==
  LET pr == pairings[Len(pairings)]
  IN  players = _rate_two_teams(env, unit, before, call.teams[pr.loser],
                                call.teams[pr.winner], TRUE, FALSE).ps

\* teams with the i-th and the next team exchanged
SwapNext(teams, i) ==
  [j \in 1..Len(teams) |->
     IF j = i THEN teams[i + 1] ELSE IF j = i + 1 THEN teams[i] ELSE teams[j]]

\* listing any two neighbouring tied teams in the other order gives the
\* same players
TiedListingExchangeable ==
  \A i \in 1..(Len(call.teams) - 1) :
    call.ranks[i] = call.ranks[i + 1]
      => players = rate(env, unit, pre, SwapNext(call.teams, i), call.ranks,
                        FALSE).ps

\* as claimed: for any two teams, and any call of rate
C11_DrawSymmetricForAnyTeams ==
  /\ AfterDraw => DrawArgumentsExchangeable
  /\ HasReturned => TiedListingExchangeable

\* as amended: for teams without a common player, and calls of rate with
\* two teams
C11_DrawSymmetricForDisjointTeams ==
  /\ (AfterDraw /\ DisjointTeams(call.teams)) => DrawArgumentsExchangeable
  /\ (HasReturned /\ DisjointTeams(call.teams) /\ Len(call.teams) = 2)
       => TiedListingExchangeable

\* a draw between two teams of different strength has moved the means
C11_Witness ==
  /\ HasReturned
  /\ Len(call.teams) = 2
  /\ call.ranks = <<0, 0>>
  /\ DisjointTeams(call.teams)
  /\ NonEmptyTeams(call.teams)
  /\ \E id \in Range(Listed) : players[id].mu # pre[id].mu

(***************************************************************************)
(* C12.  The draw margin eps that _draw_margin returns is non-negative for *)
(* every beta > 0 and every draw_probability in [0, 1), draw_probability   *)
(* = 0 included: the search for Phi(z) = 0.5 does not end at a negative z. *)
(***************************************************************************)
C12_DrawMarginNonNegative ==
  search.done => (search.z2 >= 0 /\ search.eps >= 0)

(***************************************************************************)
(* C15.  The calibration of the draw margin ends after exactly 80          *)
(* bisection steps; throughout, -10 <= lo <= hi <= 10 and, for every       *)
(* target in [0.5, 1), Phi(lo) < target <= Phi(hi); the z returned lies in *)
(* the final bracket; the width hi - lo is halved by every step.           *)
(***************************************************************************)
\* the bracket is inside [-10, 10] and holds the target; the result is
\* computed after 80 steps, from the bracket Bisect computes, with z in it
BracketKept ==
  pc = "__init__"
    => /\ -SearchBound <= search.lo
       /\ search.lo <= search.hi
       /\ search.hi <= SearchBound
       /\ search.n <= BisectionSteps
       /\ _Phi(search.lo) < search.target
       /\ search.target <= _Phi(search.hi)
       /\ search.done
            => /\ search.n = BisectionSteps
               /\ 2 * search.lo <= search.z2
               /\ search.z2 <= 2 * search.hi
               /\ <<search.lo, search.hi>>
                    = Bisect(BisectionSteps, -SearchBound, SearchBound,
                             search.target)
               /\ search.eps = _draw_margin(search.beta, search.draw_probability)

\* a step halves the width exactly
WidthHalved ==
  search'.n = search.n + 1
    => 2 * (search'.hi - search'.lo) = search.hi - search.lo

\* a step halves the width up to the rounding of the midpoint to a number
\* of the resolution, and never widens the bracket
WidthHalvedUpToRounding ==
  search'.n = search.n + 1
    => /\ 2 * (search'.hi - search'.lo) <= (search.hi - search.lo) + 1
       /\ search.lo <= search'.lo
       /\ search'.hi <= search.hi

\* as claimed: the width halves at every step
C15_BisectionHalvesEveryStep ==
  /\ []BracketKept
  /\ [][WidthHalved]_vars
  /\ <>(search.done)

\* as amended: the width halves up to rounding
C15_BisectionHalvesUpToRounding ==
  /\ []BracketKept
  /\ [][WidthHalvedUpToRounding]_vars
  /\ <>(search.done)

\* the calibration of the default environment has returned: 80 steps, a
\* bracket of neighbouring numbers above 0
C15_Witness ==
  /\ search.done
  /\ search.n = BisectionSteps
  /\ search.draw_probability = 10
  /\ search.beta = 50
  /\ search.hi - search.lo = 1
  /\ search.lo > 0
  /\ search.eps > 0

(***************************************************************************)
(* C13.  eps is computed once, by __init__, and never again: no call of    *)
(* make_player or rate changes eps or any other field of the environment   *)
(* (mu0, sigma0, beta, tau, draw_probability, trust), and every report     *)
(* carries that eps, not eps / c.                                          *)
(***************************************************************************)
\* the environments as __init__ leaves them: eps is what _draw_margin gives
\* for the beta and the draw_probability
Constructed ==
  { TrueSkillEnv(cfg.mu0, cfg.sigma0, cfg.beta, cfg.tau, cfg.draw_probability,
                 cfg.trust) : cfg \in Configs }

\* the environment is as constructed, and every report of the call in
\* progress carries its eps
EpsAsConstructed ==
  /\ env \in Constructed
  /\ \A i \in 1..Len(reports) : reports[i].eps = env.eps
  /\ \A i \in 1..Len(result.reports) : result.reports[i].eps = env.eps

C13_EnvironmentNeverChanges ==
  /\ []EpsAsConstructed
  /\ [][env' = env /\ unit' = unit]_vars

\* the second call of rate has returned two reports, with the eps > 0 of
\* the environment
C13_Witness ==
  /\ HasReturned
  /\ ncalls >= 1
  /\ Len(result.reports) = 2
  /\ env.eps > 0
  /\ result.reports[2].eps = env.eps
  /\ result.reports[2].c # TScale

(***************************************************************************)
(* C14.  make_player(name) returns a new Player with the mu0 and sigma0 of *)
(* the environment and does nothing else: the environment and the players  *)
(* made before are as they were, and the new player is independent, also   *)
(* when its name was used before: rating a player changes no other player  *)
(* of the same name.                                                       *)
(***************************************************************************)
\* a step that makes a player appends it, with the prior of the
\* environment, and changes nothing else
MakesOnlyThePlayer ==
  Len(players') # Len(players)
    => /\ Len(players') = Len(players) + 1
       /\ \A id \in Ids : players'[id] = players[id]
       /\ players'[Len(players')].mu = env.mu0
       /\ players'[Len(players')].sigma = env.sigma0
       /\ UNCHANGED <<unit, env, pc, call, reports, result, ncalls, pre,
                      before, drifted, pairings, search>>

\* a player that is not in the teams of the call in progress is as it was
\* when the call was entered, whoever of its name is in them
NamesakesUntouched ==
  pc # "idle"
    => \A id \in Ids \ Range(Listed) :
         (\E other \in Range(Listed) : players[other].name = players[id].name)
           => players[id] = pre[id]

C14_MakePlayerOnlyAllocates ==
  /\ [][MakesOnlyThePlayer]_vars
  /\ []NamesakesUntouched

\* the third player has the name of the first; a call has rated the first
\* and the third is as make_player made it
C14_Witness ==
  /\ HasReturned
  /\ Len(players) = 3
  /\ players[3].name = players[1].name
  /\ 1 \in Range(Listed)
  /\ 3 \notin Range(Listed)
  /\ players[1].mu # env.mu0
  /\ players[3] = make_player(env, players[1].name)

(***************************************************************************)
(* C16.  With the teams, the players and every other parameter the same, a *)
(* larger trust gives a larger perf_noise and a larger c, and dampens the  *)
(* update: for every player |delta_mu| and the reduction of sigma are no   *)
(* larger under the larger trust.                                          *)
(***************************************************************************)
\* the latest call of _rate_two_teams has updated its teams, in a call that
\* meets the preconditions: no empty team, no player listed twice
AfterUpdate ==
  /\ pc # "idle"
  /\ pairings # << >>
  /\ result.kind # "ZeroDivisionError"
  /\ NonEmptyTeams(call.teams)
  /\ NoRepeats(Listed)

\* the latest update as it is with the given trust, all else the same
LastUpdateWith(trust) ==
  LET pr == pairings[Len(pairings)]
  IN  TeamsUpdate([env EXCEPT !.trust = trust], unit, before,
                  call.teams[pr.winner], call.teams[pr.loser], pr.is_draw)

\* perf_noise of the latest update with the given trust
PerfNoiseWith(trust) ==
  LET pr == pairings[Len(pairings)]
      both == call.teams[pr.winner] \o call.teams[pr.loser]
  IN  SumSeq([i \in 1..Len(both) |->
                PerfNoise([env EXCEPT !.trust = trust], before[both[i]])])

\* more trust: more perf_noise, and c no smaller
TrustRaisesNoise ==
  /\ PerfNoiseWith(env.trust + 1) > PerfNoiseWith(env.trust)
  /\ LastUpdateWith(env.trust + 1).c >= LastUpdateWith(env.trust).c

\* more trust: no player's mean moves further, no player's sigma falls more
TrustDampens ==
  \A id \in LastPaired :
    /\ Abs(LastUpdateWith(env.trust + 1).ps[id].mu - before[id].mu)
         <= Abs(players[id].mu - before[id].mu)
    /\ before[id].sigma - LastUpdateWith(env.trust + 1).ps[id].sigma
         <= before[id].sigma - players[id].sigma

\* the latest update was a win of a team that was not the favourite
\* (mu_w <= mu_l), away from the guard of _v_truncate
UnexpectedWin ==
  /\ ~pairings[Len(pairings)].is_draw
  /\ LastUpdateWith(env.trust).t <= 0
  /\ _Phi(LastUpdateWith(env.trust).t) >= DenomGuard

\* as claimed: every update is dampened
C16_TrustDampensEveryUpdate ==
  AfterUpdate => (TrustRaisesNoise /\ TrustDampens)

\* as amended: the wins of a team that was not the favourite are dampened
C16_TrustDampensUnexpectedWins ==
  AfterUpdate => /\ TrustRaisesNoise
                 /\ UnexpectedWin => TrustDampens

\* two fresh players of the default environment, one has won: with more
\* trust c is larger and the mean of the winner moves less
C16_Witness ==
  /\ AfterUpdate
  /\ OneVsOne
  /\ FreshBefore
  /\ DefaultEnvironment
  /\ UnexpectedWin
  /\ LastUpdateWith(env.trust + 1).c > LastUpdateWith(env.trust).c
  /\ \E id \in LastPaired :
       /\ players[id].mu > before[id].mu
       /\ LastUpdateWith(env.trust + 1).ps[id].mu < players[id].mu
       /\ LastUpdateWith(env.trust + 1).ps[id].sigma > players[id].sigma

(***************************************************************************)
(* C17.  The pairwise updates of a multi-team call are applied one after   *)
(* the other on the shared players: a team in two pairings enters the      *)
(* second with the mu and sigma the first produced.  Hence with tau = 0 a  *)
(* call with three teams leaves the players as the two-team call of the    *)
(* first two teams of the order followed by the two-team call of the last  *)
(* two does, as rate([[A],[B],[C]], [0,1,2]) and rate([[A],[B]], [0,1])    *)
(* then rate([[B],[C]], [0,1]).                                            *)
(***************************************************************************)
\* a call with three teams that meets the preconditions has returned
ThreeTeamsRated ==
  /\ HasReturned
  /\ Len(call.teams) = 3
  /\ NonEmptyTeams(call.teams)
  /\ NoRepeats(Listed)

\* the players after _rate_two_teams on ps for the i-th and the j-th team
\* of the call in progress
After(ps, i, j) ==
  _rate_two_teams(env, unit, ps, call.teams[i], call.teams[j],
                  call.ranks[i] = call.ranks[j], FALSE).ps

\* the players after the two-team call of rate on ps for the i-th and the
\* j-th team of the call in progress
AfterCall(ps, i, j) ==
  rate(env, unit, ps, <<call.teams[i], call.teams[j]>>,
       <<call.ranks[i], call.ranks[j]>>, FALSE).ps

C17_MultiTeamIsSequential ==
  ThreeTeamsRated
    => LET o == SortedOrder(call.ranks)
       IN  /\ players = After(After(DriftTeams(env, pre, call.teams).ps,
                                    o[1], o[2]), o[2], o[3])
           /\ env.tau = 0
                => players = AfterCall(AfterCall(pre, o[1], o[2]), o[2], o[3])

\* rate([[A],[B],[C]], [0,1,2]) for three fresh players without drift has
\* returned; C is not as the pairing of B and C alone would leave it
C17_Witness ==
  /\ ThreeTeamsRated
  /\ env.tau = 0
  /\ unit = "1/12"
  /\ call.teams = <<(<<1>>), <<2>>, <<3>>>>
  /\ call.ranks = <<0, 1, 2>>
  /\ \A id \in 1..3 : pre[id].mu = env.mu0 /\ pre[id].sigma = env.sigma0
  /\ players[3] # After(pre, 2, 3)[3]
  /\ players[3] = AfterCall(AfterCall(pre, 1, 2), 2, 3)[3]

(***************************************************************************)
(* C18.  A call of rate changes only the mu and sigma of the players in    *)
(* the teams submitted: a player in none of them keeps its mu and sigma,   *)
(* no player's name changes, no player appears or disappears, and teams    *)
(* and ranks keep their contents and order.                                *)
(***************************************************************************)
\* since the call was entered: the same players, under the same names, and
\* those outside the teams as they were
OnlyListedChanged ==
  pc # "idle"
    => /\ Len(players) = Len(pre)
       /\ \A id \in Ids :
            /\ players[id].name = pre[id].name
            /\ id \notin Range(Listed) => players[id] = pre[id]

\* no step inside the call changes its arguments
ArgumentsKept ==
  pc = "pairing"
    => /\ call'.teams = call.teams
       /\ call'.ranks = call.ranks
       /\ call'.return_report = call.return_report

C18_RateChangesOnlyListedPlayers ==
  /\ []OnlyListedChanged
  /\ [][ArgumentsKept]_vars

\* the second call has rated the first two of three players; the third,
\* rated by the first call, is as that call left it
C18_Witness ==
  /\ HasReturned
  /\ ncalls >= 1
  /\ Len(players) = 3
  /\ Range(Listed) = {1, 2}
  /\ players[1] # pre[1]
  /\ players[2] # pre[2]
  /\ players[3] = pre[3]
  /\ players[3].mu # env.mu0
=============================================================================
